---- MODULE Spec2Model ----
(***************************************************************************)
(* mystampa: thermal-printer receipt service.                              *)
(*                                                                         *)
(* The module models the delivery path of the service: the /print route    *)
(* handler (routes/print.ts), its safePrint helper, the printer transport  *)
(* (utils/printer.ts: sendToPrinter, getPrinterStatus) and the in-memory   *)
(* retry queue (utils/printQueue.ts: PrintQueueManager).                   *)
(*                                                                         *)
(* The receipt functions (wrapText, the totals of buildCashReceipt, the     *)
(* payload of sendToPrinter, the raster block of loadImageAsEscPos) and    *)
(* the socket of getPrinterStatus are modelled as calls on their own, and  *)
(* so are the response interceptors of utils/axiosInstance.ts.             *)
(*                                                                         *)
(* JavaScript runs handlers to completion between awaits, so every action  *)
(* below is one continuation: the code from one await up to the next.      *)
(* Strings are sequences of one-character strings so that trimming is      *)
(* computed, numbers that may be NaN or infinite are tagged records.       *)
(***************************************************************************)
EXTENDS Integers, Sequences, FiniteSets, TLC

VARIABLES
    queue,             \* PrintQueueManager.queue
    isProcessing,      \* PrintQueueManager.isProcessing
    checkInterval,     \* PrintQueueManager.checkInterval is set (timer armed)
    sweep,             \* the invocations of processQueue, idle or suspended
    authToken,         \* (global).__AUTH_TOKEN is set
    printers,          \* index.ts: the cached printer list
    initPc,            \* index.ts: position of initialize()
    req,               \* the invocations of the POST /print handler
    progressCounters,  \* routes/print.ts: progressCounters
    console,           \* receipts echoed with console.log
    nextRef,           \* identity of the next PrintJob object allocated
    stable,            \* printers (by ip) that answer Ok and accept sends from now on
    delivered,         \* the jobs (by ref) a sweep has sent successfully
    event,             \* the continuation that ran last
    probe              \* the call observed on its own, or the history of a sweep

vars == << queue, isProcessing, checkInterval, sweep, authToken, printers,
           initPc, req, progressCounters, console, nextRef, stable,
           delivered, event, probe >>

\* event tells what the last continuation was when it was a tick that
\* returned at once ("tickBusy", "tickEmpty"), the return of a safePrint call
\* (event.call is the call) or the end of a processQueue invocation
\* (event.ended is what it did); any other continuation is a "step"
NoEnded == [snapshot |-> {}, sent |-> {}, refused |-> {}, before |-> {}]

(***************************************************************************)
(* Bounds of the model.                                                    *)
(***************************************************************************)
MaxRequests == 1     \* /print requests handled in one run
MaxSweeps == 2       \* processQueue invocations that can be tracked at once
NumJobIds == 2       \* distinct values Math.random() can yield for a job id
MaxAdds == 3         \* calls of add() in a run of the queue manager alone

Requests == 1..MaxRequests
SweepIds == 1..MaxSweeps

(***************************************************************************)
(* JavaScript values.                                                      *)
(***************************************************************************)
Num(n) == [kind |-> "num", val |-> n]
NaN == [kind |-> "NaN", val |-> 0]
PosInfinity == [kind |-> "Infinity", val |-> 1]
NegInfinity == [kind |-> "Infinity", val |-> -1]

\* Number(v) on a number or null
ToNumber(v) == IF v.kind = "null" THEN Num(0) ELSE v

\* Number.isFinite
IsFinite(x) == x.kind = "num"

\* x > 0 on numbers: false for NaN
GreaterThanZero(x) ==
    \/ x.kind = "num" /\ x.val > 0
    \/ x.kind = "Infinity" /\ x.val > 0

IsSpace(c) == c \in {" ", "\t", "\n"}

RECURSIVE TrimStart(_)
TrimStart(s) ==
    IF s # << >> /\ IsSpace(Head(s)) THEN TrimStart(Tail(s)) ELSE s

RECURSIVE TrimEnd(_)
TrimEnd(s) ==
    IF s # << >> /\ IsSpace(s[Len(s)])
    THEN TrimEnd(SubSeq(s, 1, Len(s) - 1))
    ELSE s

\* trimStr: String(v).trim()
trimStr(v) == TrimEnd(TrimStart(v))

Null == [kind |-> "null", val |-> 0]

NoCall ==
    [active |-> FALSE, printerId |-> << >>, ip |-> << >>, port |-> Null,
     data |-> [kind |-> "none", req |-> 0, printerId |-> << >>, prog |-> 0],
     status |-> "none", sends |-> 0, sent |-> FALSE, added |-> << >>,
     threw |-> FALSE]

Event(type, id) ==
    [type |-> type, id |-> id, call |-> NoCall, ended |-> NoEnded]

\* parsePort: null and undefined give 0, a number is returned as it is
parsePort(v) == IF v.kind = "null" THEN Num(0) ELSE v

(***************************************************************************)
(* utils/printer.ts: getPrinterStatus, classification of the status byte.  *)
(***************************************************************************)
RECURSIVE BitAnd(_, _)
BitAnd(a, b) ==
    IF a = 0 \/ b = 0 THEN 0
    ELSE (IF a % 2 = 1 /\ b % 2 = 1 THEN 1 ELSE 0)
         + 2 * BitAnd(a \div 2, b \div 2)

MaskPaperEnd == 96    \* 0x60
MaskPaperLow == 12    \* 0x0C

\* variant: the paper-low test takes precedence over the paper-end test
ClassifyByteLowFirst(statusByte) ==
    LET paperEnded == BitAnd(statusByte, MaskPaperEnd) = MaskPaperEnd
        paperLow == BitAnd(statusByte, MaskPaperLow) = MaskPaperLow
    IN  IF paperLow THEN "CARTA_QUASI_FINITA"
        ELSE IF paperEnded THEN "CARTA_FINITA"
        ELSE "OK"

\* the "data" handler of getPrinterStatus
ClassifyStatusByte(statusByte) ==
    LET paperEnded == BitAnd(statusByte, MaskPaperEnd) = MaskPaperEnd
        paperLow == BitAnd(statusByte, MaskPaperLow) = MaskPaperLow
    IN  IF paperEnded THEN "CARTA_FINITA"
        ELSE IF paperLow THEN "CARTA_QUASI_FINITA"
        ELSE "OK"

\* first bytes a printer answers with in the system model
StatusBytes == {0, 12, 96}

\* ways a call of getPrinterStatus settles: resolved with a status, or
\* rejected by the socket error handler or by the 3 s timer
StatusOutcomes(ip, port) ==
    IF ip \in stable
    THEN {ClassifyStatusByte(b) : b \in {0, 12}}
    ELSE {ClassifyStatusByte(b) : b \in StatusBytes} \cup {"ERROR", "TIMEOUT"}

\* safePrint: status === "OK" || status === "CARTA_QUASI_FINITA"
StatusReady(status) == status = "OK" \/ status = "CARTA_QUASI_FINITA"

(***************************************************************************)
(* utils/printer.ts: sendToPrinter, validation of the address.             *)
(***************************************************************************)
\* variant: only the ip is validated
AddressCheckIpOnly(ip, port) ==
    trimStr(ip) = << >>

\* the condition of the throw at the head of sendToPrinter
InvalidPrinterAddress(ip, port) ==
    LET ipClean == trimStr(ip)
        portClean == ToNumber(port)
    IN  \/ ipClean = << >>
        \/ ~IsFinite(portClean)
        \/ ~GreaterThanZero(portClean)

\* ways a call of sendToPrinter settles
SendOutcomes(ip, port) ==
    IF InvalidPrinterAddress(ip, port) THEN {"InvalidAddress"}
    ELSE IF trimStr(ip) \in stable THEN {"ok"}
    ELSE {"ok", "TransportError"}

(***************************************************************************)
(* utils/printQueue.ts: PrintQueueManager.                                 *)
(***************************************************************************)
JobIds == 1..NumJobIds

\* A PrintJob object. ref is the identity of the object (two jobs are the
\* same job iff they are the same object); id is the Math.random() token;
\* timestamp is Date.now(), read as the logical time of the allocation.
NewJob(ref, id, printerId, ip, port, data) ==
    [ref |-> ref, id |-> id, printerId |-> printerId, ip |-> ip,
     port |-> port, data |-> data, timestamp |-> ref, attempts |-> 0]

\* variant: the job is put at the head of the queue
addFront(q, job) == << job >> \o q

\* add(): this.queue.push(job)
add(q, job) == Append(q, job)

Refs(jobs) == {jobs[i].ref : i \in 1..Len(jobs)}

\* variant: the jobs of a printer are taken newest first
RECURSIVE SelectJobsNewestFirst(_, _)
SelectJobsNewestFirst(q, printerId) ==
    IF q = << >> THEN << >>
    ELSE IF Head(q).printerId = printerId
         THEN SelectJobsNewestFirst(Tail(q), printerId) \o << Head(q) >>
         ELSE SelectJobsNewestFirst(Tail(q), printerId)

RECURSIVE SelectJobs(_, _)
SelectJobs(q, printerId) ==
    IF q = << >> THEN << >>
    ELSE IF Head(q).printerId = printerId
         THEN << Head(q) >> \o SelectJobs(Tail(q), printerId)
         ELSE SelectJobs(Tail(q), printerId)

RECURSIVE KeysInOrder(_, _)
KeysInOrder(q, seen) ==
    IF q = << >> THEN << >>
    ELSE IF Head(q).printerId \in seen
         THEN KeysInOrder(Tail(q), seen)
         ELSE << Head(q).printerId >>
              \o KeysInOrder(Tail(q), seen \cup {Head(q).printerId})

\* jobsByPrinter: a Map iterates its keys in insertion order
GroupByPrinter(q) ==
    LET keys == KeysInOrder(q, {})
    IN  [g \in 1..Len(keys) |-> SelectJobs(q, keys[g])]

IdleSweep ==
    [pc |-> "idle", groups |-> << >>, gi |-> 0, ji |-> 0,
     remainingJobs |-> << >>, status |-> "none",
     snapshot |-> {}, sent |-> {}, refused |-> {}]

\* variant: processQueue without its re-entrancy guard
NoGuard(processing) == FALSE

\* processQueue: if (this.isProcessing) return;
ReentrancyGuard(processing) == processing

\* variant: every status the printer answers lets the group be sent
SweepStatusAny(status) == status \notin {"ERROR", "TIMEOUT"}

\* processQueue: status === "OK" || status === "CARTA_QUASI_FINITA"
SweepStatusReady(status) == status = "OK" \/ status = "CARTA_QUASI_FINITA"

\* processQueue after the last job of group sw.gi: the next group's status
\* query, or the end of the sweep (sw.pc = "end")
NextGroup(sw) ==
    IF sw.gi < Len(sw.groups)
    THEN [sw EXCEPT !.pc = "status", !.gi = sw.gi + 1, !.ji = 0,
                    !.status = "none"]
    ELSE [sw EXCEPT !.pc = "end", !.ji = 0, !.status = "none"]

\* processQueue, continuation of "await getPrinterStatus(ip, port)"
SweepAfterStatus(sw, outcome) ==
    LET jobs == sw.groups[sw.gi]
    IN  IF outcome \in {"ERROR", "TIMEOUT"}
        THEN NextGroup([sw EXCEPT !.remainingJobs = sw.remainingJobs \o jobs,
                                  !.refused = sw.refused \cup Refs(jobs)])
        ELSE IF SweepStatusReady(outcome)
        THEN [sw EXCEPT !.pc = "send", !.ji = 1, !.status = outcome]
        ELSE NextGroup([sw EXCEPT !.remainingJobs = sw.remainingJobs \o jobs,
                                  !.refused = sw.refused \cup Refs(jobs)])

\* variant: a job whose send failed is kept with its attempts counted up
SweepAfterSendCounting(sw, outcome) ==
    LET jobs == sw.groups[sw.gi]
        job == jobs[sw.ji]
        done == IF outcome = "ok"
                THEN [sw EXCEPT !.sent = sw.sent \cup {job.ref}]
                ELSE [sw EXCEPT !.remainingJobs = Append(sw.remainingJobs,
                          [job EXCEPT !.attempts = job.attempts + 1])]
    IN  IF sw.ji < Len(jobs)
        THEN [done EXCEPT !.ji = sw.ji + 1]
        ELSE NextGroup(done)

\* variant: after a send that failed the rest of the group is kept without
\* being attempted
SweepAfterSendStopsGroup(sw, outcome) ==
    LET jobs == sw.groups[sw.gi]
        job == jobs[sw.ji]
    IN  IF outcome = "ok"
        THEN IF sw.ji < Len(jobs)
             THEN [sw EXCEPT !.sent = sw.sent \cup {job.ref},
                             !.ji = sw.ji + 1]
             ELSE NextGroup([sw EXCEPT !.sent = sw.sent \cup {job.ref}])
        ELSE NextGroup([sw EXCEPT !.remainingJobs =
                 sw.remainingJobs \o SubSeq(jobs, sw.ji, Len(jobs))])

\* processQueue, continuation of "await sendToPrinter(job.ip, job.port, job.data)"
SweepAfterSend(sw, outcome) ==
    LET jobs == sw.groups[sw.gi]
        job == jobs[sw.ji]
        done == IF outcome = "ok"
                THEN [sw EXCEPT !.sent = sw.sent \cup {job.ref}]
                ELSE [sw EXCEPT !.remainingJobs = Append(sw.remainingJobs, job)]
    IN  IF sw.ji < Len(jobs)
        THEN [done EXCEPT !.ji = sw.ji + 1]
        ELSE NextGroup(done)

\* processQueue: this.queue = remainingJobs
QueueAfterSweep(q, sw) == sw.remainingJobs

\* variant: the guard stays set when the sweep kept a job
GuardAfterSweepWithJobs(sw) == sw.remainingJobs # << >>

\* processQueue: this.isProcessing = false
GuardAfterSweep(sw) == FALSE

\* the end of processQueue: the queue is replaced and the guard released
FinishSweep(s, sw) ==
    IF sw.pc = "end"
    THEN /\ queue' = QueueAfterSweep(queue, sw)
         /\ isProcessing' = GuardAfterSweep(sw)
         /\ sweep' = [sweep EXCEPT ![s] = IdleSweep]
         /\ delivered' = delivered \cup sw.sent
         /\ event' = [type |-> "sweepEnd", id |-> s, call |-> NoCall,
                      ended |-> [snapshot |-> sw.snapshot, sent |-> sw.sent,
                                 refused |-> sw.refused,
                                 before |-> Refs(queue)]]
    ELSE /\ sweep' = [sweep EXCEPT ![s] = sw]
         /\ delivered' = delivered \cup sw.sent
         /\ event' = Event("step", 0)
         /\ UNCHANGED << queue, isProcessing >>

\* When the sweeps are observed on their own (probe.op = "sweeps"), probe
\* keeps the history of the processQueue invocation that started last: the
\* queue it started from, the status queries that have settled and the
\* sends that have settled, in order.
Observing(p, q) ==
    IF p.op = "sweeps"
    THEN [op |-> "sweeps", taken |-> q, queried |-> << >>,
          attempted |-> << >>]
    ELSE p

Observed(p, field, x) ==
    IF p.op = "sweeps" THEN [p EXCEPT ![field] = Append(p[field], x)] ELSE p

FreeSlot == CHOOSE s \in SweepIds :
                /\ sweep[s].pc = "idle"
                /\ \A t \in SweepIds : sweep[t].pc = "idle" => s <= t

\* a timer tick: setInterval(() => this.processQueue(), INTERVAL_MS)
Tick ==
    /\ checkInterval
    /\ \E s \in SweepIds : sweep[s].pc = "idle"
    /\ IF ReentrancyGuard(isProcessing)
       THEN /\ event' = Event("tickBusy", 0)
            /\ UNCHANGED << queue, isProcessing, sweep >>
       ELSE IF Len(queue) = 0
       THEN /\ event' = Event("tickEmpty", 0)
            /\ UNCHANGED << queue, isProcessing, sweep >>
       ELSE /\ isProcessing' = TRUE
            /\ sweep' = [sweep EXCEPT ![FreeSlot] =
                   [pc |-> "status", groups |-> GroupByPrinter(queue),
                    gi |-> 1, ji |-> 0, remainingJobs |-> << >>,
                    status |-> "none", snapshot |-> Refs(queue),
                    sent |-> {}, refused |-> {}]]
            /\ event' = Event("tickStart", FreeSlot)
            /\ UNCHANGED queue
    /\ probe' = IF event'.type = "tickStart" THEN Observing(probe, queue)
                ELSE probe
    /\ UNCHANGED << checkInterval, authToken, printers, initPc, req,
                    progressCounters, console, nextRef, stable, delivered >>

\* the status query of the current group settles
SweepStatus(s) ==
    /\ sweep[s].pc = "status"
    /\ LET first == sweep[s].groups[sweep[s].gi][1]
       IN  \E outcome \in StatusOutcomes(first.ip, first.port) :
               /\ FinishSweep(s, SweepAfterStatus(sweep[s], outcome))
               /\ probe' = Observed(probe, "queried",
                      [printerId |-> first.printerId, status |-> outcome])
    /\ UNCHANGED << checkInterval, authToken, printers, initPc, req,
                    progressCounters, console, nextRef, stable >>

\* the send of the current job settles
SweepSend(s) ==
    /\ sweep[s].pc = "send"
    /\ LET job == sweep[s].groups[sweep[s].gi][sweep[s].ji]
       IN  \E outcome \in SendOutcomes(job.ip, job.port) :
               /\ FinishSweep(s, SweepAfterSend(sweep[s], outcome))
               /\ probe' = Observed(probe, "attempted",
                      [ref |-> job.ref, outcome |-> outcome])
    /\ UNCHANGED << checkInterval, authToken, printers, initPc, req,
                    progressCounters, console, nextRef, stable >>

(***************************************************************************)
(* routes/print.ts: safePrint.                                             *)
(***************************************************************************)
\* safePrint up to "await getPrinterStatus(ip, port)"
StartCall(printerId, ip, port, data) ==
    [NoCall EXCEPT !.active = TRUE, !.printerId = printerId, !.ip = ip,
                   !.port = port, !.data = data, !.status = "pending"]

\* variant: a failed status query is rethrown to the caller
safePrintStatusRethrows(outcome) ==
    IF outcome \in {"ERROR", "TIMEOUT"}
    THEN [next |-> "return", adds |-> 0, threw |-> TRUE]
    ELSE IF StatusReady(outcome)
    THEN [next |-> "send", adds |-> 0, threw |-> FALSE]
    ELSE [next |-> "return", adds |-> 1, threw |-> FALSE]

\* safePrint, continuation of "await getPrinterStatus(ip, port)"
safePrintAfterStatus(outcome) ==
    IF outcome \in {"ERROR", "TIMEOUT"}
    THEN [next |-> "return", adds |-> 1, threw |-> FALSE]
    ELSE IF StatusReady(outcome)
    THEN [next |-> "send", adds |-> 0, threw |-> FALSE]
    ELSE [next |-> "return", adds |-> 1, threw |-> FALSE]

\* variant: a failed send is not enqueued
safePrintSendDropped(outcome) ==
    [next |-> "return", adds |-> 0, threw |-> FALSE]

\* variant: the payload is enqueued whatever the send did
safePrintSendAlsoQueued(outcome) ==
    [next |-> "return", adds |-> 1, threw |-> FALSE]

\* safePrint, continuation of "await sendToPrinter(ip, port, data)"
safePrintAfterSend(outcome) ==
    IF outcome = "ok"
    THEN [next |-> "return", adds |-> 0, threw |-> FALSE]
    ELSE [next |-> "return", adds |-> 1, threw |-> FALSE]

(***************************************************************************)
(* index.ts: initialize() and the cached printer list.                     *)
(***************************************************************************)
PidA == << "A" >>
PidB == << "B" >>
PidBad == << "X" >>
PidUnknown == << "U" >>
PidCash == << "C" >>

\* what GET /v1/printers yields after Printer.fromJson: two reachable
\* printers and one whose ip is blank
Directory ==
    << [id |-> PidA, ip |-> << "1" >>, port |-> Num(9100)],
       [id |-> PidB, ip |-> << "2" >>, port |-> Num(9100)],
       [id |-> PidBad, ip |-> << >>, port |-> Num(9100)] >>

StableIps == {<< "1" >>}

\* initialize(): authInfo = await login()
InitLogin ==
    /\ initPc = "login"
    /\ \E ok \in BOOLEAN :
          IF ok
          THEN authToken' = TRUE /\ initPc' = "fetch"
          ELSE authToken' = authToken /\ initPc' = "done"
    /\ event' = Event("step", 0)
    /\ UNCHANGED << queue, isProcessing, checkInterval, sweep, printers, req,
                    progressCounters, console, nextRef, stable, delivered,
                    probe >>

\* initialize(): printers = await fetchPrinters(token)
InitFetchPrinters ==
    /\ initPc = "fetch"
    /\ \E ok \in BOOLEAN : printers' = IF ok THEN Directory ELSE << >>
    /\ initPc' = "done"
    /\ event' = Event("step", 0)
    /\ UNCHANGED << queue, isProcessing, checkInterval, sweep, authToken, req,
                    progressCounters, console, nextRef, stable, delivered,
                    probe >>

(***************************************************************************)
(* routes/print.ts: the POST /print handler.                               *)
(***************************************************************************)
NoEmbedded == [present |-> FALSE, id |-> << >>, ip |-> << >>, port |-> Null]

\* (printed is history: the receipts the safePrint calls of the request
\* have sent successfully)
NewRequest ==
    [pc |-> "new", valid |-> FALSE, token |-> FALSE, kitchen |-> << >>,
     ki |-> 0,
     hasCashRegister |-> FALSE, cashRegisterPrinterId |-> << >>,
     embedded |-> NoEmbedded, printers |-> << >>, phase |-> "none",
     resp |-> "none", call |-> NoCall, built |-> 0, printed |-> {}]

\* the orders a client posts: whether orderItems is an array, the
\* food.printerId of each item, whether cashRegisterId is set
Orders ==
    { [valid |-> FALSE, items |-> << >>, cashRegisterId |-> FALSE],
      [valid |-> TRUE, items |-> << << " ", "A" >>, PidA, PidB >>,
       cashRegisterId |-> FALSE],
      [valid |-> TRUE, items |-> << PidBad >>, cashRegisterId |-> FALSE],
      [valid |-> TRUE, items |-> << PidUnknown, << >> >>,
       cashRegisterId |-> TRUE] }

\* the answers of GET /v1/cash-registers/{id}?include=printer
CashRegisterResponses ==
    { [ok |-> FALSE, defaultPrinterId |-> << >>, defaultPrinter |-> NoEmbedded],
      [ok |-> TRUE, defaultPrinterId |-> PidB, defaultPrinter |-> NoEmbedded],
      [ok |-> TRUE, defaultPrinterId |-> << >>,
       defaultPrinter |-> [present |-> TRUE, id |-> PidCash,
                           ip |-> << "2", " " >>, port |-> Num(9100)]],
      [ok |-> TRUE, defaultPrinterId |-> PidBad,
       defaultPrinter |-> [present |-> TRUE, id |-> PidBad,
                           ip |-> << " " >>, port |-> Num(0)]] }

\* variant: a printer that is not found is returned as a printer without
\* an address
PrinterWithoutAddress ==
    [found |-> TRUE, id |-> << >>, ip |-> << >>, port |-> Null]

\* resolvePrinter: return null
NoPrinter == [found |-> FALSE, id |-> << >>, ip |-> << >>, port |-> Null]

RECURSIVE FindPrinter(_, _, _)
FindPrinter(plist, pid, i) ==
    IF i > Len(plist) THEN 0
    ELSE IF trimStr(plist[i].id) = pid THEN i
    ELSE FindPrinter(plist, pid, i + 1)

\* resolvePrinter
resolvePrinter(printerId, emb, plist) ==
    LET pid == trimStr(printerId)
        i == FindPrinter(plist, pid, 1)
    IN  IF pid = << >> THEN NoPrinter
        ELSE IF /\ emb.present
                /\ trimStr(emb.id) = pid
                /\ trimStr(emb.ip) # << >>
                /\ GreaterThanZero(parsePort(emb.port))
        THEN [found |-> TRUE, id |-> pid, ip |-> trimStr(emb.ip),
              port |-> parsePort(emb.port)]
        ELSE IF i = 0 THEN NoPrinter
        ELSE [found |-> TRUE, id |-> pid, ip |-> trimStr(plist[i].ip),
              port |-> parsePort(plist[i].port)]

\* the keys of kitchenByPrinterId, in insertion order
RECURSIVE KitchenKeys(_, _)
KitchenKeys(items, seen) ==
    IF items = << >> THEN << >>
    ELSE LET printerId == trimStr(Head(items))
         IN  IF printerId = << >> \/ printerId \in seen
             THEN KitchenKeys(Tail(items), seen)
             ELSE << printerId >>
                  \o KitchenKeys(Tail(items), seen \cup {printerId})

\* progressCounters[printerId] ?? 1
Progress(counters, printerId) ==
    IF printerId \in DOMAIN counters THEN counters[printerId] ELSE 1

\* variant: the incremented value is not stored
SetProgressSkipped(counters, printerId, value) == counters

\* progressCounters[printerId] = prog + 1
SetProgress(counters, printerId, value) ==
    [k \in DOMAIN counters \cup {printerId} |->
        IF k = printerId THEN value ELSE counters[k]]

\* buildKitchenReceipt(order, lines, prog) and buildCashReceipt(order,
\* cashLines), as the receipt each one renders
KitchenReceipt(r, printerId, prog) ==
    [kind |-> "kitchen", req |-> r, printerId |-> printerId, prog |-> prog]

CashReceipt(r, printerId) ==
    [kind |-> "cash", req |-> r, printerId |-> printerId, prog |-> 0]

\* the handler from "Print receipt for cash register printer" up to the
\* status query of safePrint, or up to res.json
CashSection(r, m) ==
    LET cashId == m.rr.cashRegisterPrinterId
        pr == resolvePrinter(cashId, m.rr.embedded, m.rr.printers)
        receipt == CashReceipt(r, cashId)
        built == [m.rr EXCEPT !.built = m.rr.built + 1, !.phase = "cash"]
    IN  IF cashId # << >> /\ pr.found
        THEN [m EXCEPT !.rr = [built EXCEPT !.pc = "status",
                          !.call = StartCall(cashId, pr.ip, pr.port, receipt)]]
        ELSE [m EXCEPT !.rr = [built EXCEPT !.pc = "done", !.resp = "ok"],
                       !.console = m.console \cup {receipt}]

\* the loop over kitchenByPrinterId from its i-th key up to the status
\* query of safePrint, or on to the cash section
RECURSIVE KitchenLoop(_, _, _)
KitchenLoop(r, m, i) ==
    IF i > Len(m.rr.kitchen) THEN CashSection(r, m)
    ELSE LET printerId == m.rr.kitchen[i]
             pr == resolvePrinter(printerId, m.rr.embedded, m.rr.printers)
             prog == Progress(m.counters, printerId)
             receipt == KitchenReceipt(r, printerId, prog)
             counted == [m EXCEPT
                 !.counters = SetProgress(m.counters, printerId, prog + 1),
                 !.rr = [m.rr EXCEPT !.built = m.rr.built + 1,
                                     !.phase = "kitchen", !.ki = i]]
         IN  IF pr.found
             THEN [counted EXCEPT !.rr = [counted.rr EXCEPT !.pc = "status",
                      !.call = StartCall(printerId, pr.ip, pr.port, receipt)]]
             ELSE KitchenLoop(r,
                     [counted EXCEPT !.console = m.console \cup {receipt}],
                     i + 1)

\* the handler after "await safePrint(...)" returned or threw
AfterSafePrint(r, m) ==
    LET returned == [m EXCEPT !.rr = [m.rr EXCEPT !.call = NoCall],
                              !.returned = m.rr.call]
    IN  IF m.rr.call.threw
        THEN [returned EXCEPT !.rr = [returned.rr EXCEPT !.pc = "done",
                                                         !.resp = "error"]]
        ELSE IF m.rr.phase = "kitchen"
        THEN KitchenLoop(r, returned, m.rr.ki + 1)
        ELSE [returned EXCEPT !.rr = [returned.rr EXCEPT !.pc = "done",
                                                         !.resp = "ok"]]

Machine(r) == [rr |-> req[r], counters |-> progressCounters,
               console |-> console, returned |-> NoCall]

Commit(r, m) ==
    /\ req' = [req EXCEPT ![r] = m.rr]
    /\ progressCounters' = m.counters
    /\ console' = m.console
    /\ event' = IF m.returned.active
                THEN [type |-> "safePrint", id |-> r, call |-> m.returned,
                      ended |-> NoEnded]
                ELSE Event("step", 0)

\* variant: the handler goes on without the auth token
ValidationWithoutToken(order, token) ==
    IF ~order.valid THEN "400" ELSE "ok"

\* the two early returns at the head of the handler
Validation(order, token) ==
    IF ~order.valid THEN "400"
    ELSE IF ~token THEN "500"
    ELSE "ok"

\* a request arrives: validation, grouping, and the handler up to its
\* first await
Receive(r) ==
    /\ req[r].pc = "new"
    /\ \A earlier \in DOMAIN req : earlier < r => req[earlier].pc # "new"
    /\ \E order \in Orders :
          LET accepted == [req[r] EXCEPT
                  !.valid = order.valid,
                  !.token = authToken,
                  !.kitchen = KitchenKeys(order.items, {}),
                  !.hasCashRegister = order.cashRegisterId,
                  !.printers = printers]
              m == [Machine(r) EXCEPT !.rr = accepted]
              refused == Validation(order, authToken)
          IN  IF refused # "ok"
              THEN Commit(r, [m EXCEPT !.rr = [accepted EXCEPT
                                  !.pc = "done", !.resp = refused]])
              ELSE IF order.cashRegisterId
              THEN Commit(r, [m EXCEPT !.rr = [accepted EXCEPT
                                  !.pc = "fetch"]])
              ELSE Commit(r, KitchenLoop(r, m, 1))
    /\ UNCHANGED << queue, isProcessing, checkInterval, sweep, authToken,
                    printers, initPc, nextRef, stable, delivered, probe >>

\* the cash register request settles
Fetched(r) ==
    /\ req[r].pc = "fetch"
    /\ \E answer \in CashRegisterResponses :
          LET id == IF trimStr(answer.defaultPrinterId) # << >>
                    THEN trimStr(answer.defaultPrinterId)
                    ELSE trimStr(answer.defaultPrinter.id)
              got == IF answer.ok
                     THEN [req[r] EXCEPT !.cashRegisterPrinterId = id,
                                         !.embedded = answer.defaultPrinter]
                     ELSE req[r]
          IN  Commit(r, KitchenLoop(r, [Machine(r) EXCEPT !.rr = got], 1))
    /\ UNCHANGED << queue, isProcessing, checkInterval, sweep, authToken,
                    printers, initPc, nextRef, stable, delivered, probe >>

\* printQueue.add called n times (0 or 1) by the call of request r
Enqueue(r, n, m) ==
    IF n = 0
    THEN /\ UNCHANGED << queue, nextRef >>
         /\ Commit(r, AfterSafePrint(r, m))
    ELSE \E id \in JobIds :
            LET c == m.rr.call
                job == NewJob(nextRef, id, c.printerId, c.ip, c.port, c.data)
                m2 == [m EXCEPT !.rr = [m.rr EXCEPT
                          !.call = [c EXCEPT !.added = Append(c.added, job)]]]
            IN  /\ queue' = add(queue, job)
                /\ nextRef' = nextRef + 1
                /\ Commit(r, AfterSafePrint(r, m2))

\* the status query of safePrint settles
SafePrintStatus(r) ==
    /\ req[r].pc = "status"
    /\ \E outcome \in StatusOutcomes(req[r].call.ip, req[r].call.port) :
          LET step == safePrintAfterStatus(outcome)
              c == [req[r].call EXCEPT !.status = outcome,
                                       !.threw = step.threw]
              m == [Machine(r) EXCEPT !.rr = [req[r] EXCEPT !.call = c]]
          IN  IF step.next = "send"
              THEN /\ Commit(r, [m EXCEPT !.rr = [m.rr EXCEPT !.pc = "send",
                          !.call = [c EXCEPT !.sends = c.sends + 1]]])
                   /\ UNCHANGED << queue, nextRef >>
              ELSE Enqueue(r, step.adds, m)
    /\ UNCHANGED << isProcessing, checkInterval, sweep, authToken, printers,
                    initPc, stable, delivered, probe >>

\* the send of safePrint settles
SafePrintSend(r) ==
    /\ req[r].pc = "send"
    /\ \E outcome \in SendOutcomes(req[r].call.ip, req[r].call.port) :
          LET step == safePrintAfterSend(outcome)
              c == [req[r].call EXCEPT !.sent = (outcome = "ok"),
                                       !.threw = step.threw]
              m == [Machine(r) EXCEPT !.rr = [req[r] EXCEPT
                      !.call = c,
                      !.printed = IF outcome = "ok"
                                  THEN req[r].printed \cup {c.data}
                                  ELSE req[r].printed]]
          IN  Enqueue(r, step.adds, m)
    /\ UNCHANGED << isProcessing, checkInterval, sweep, authToken, printers,
                    initPc, stable, delivered, probe >>

\* the environment: a printer works from now on
Stabilize ==
    /\ \E ip \in StableIps \ stable : stable' = stable \cup {ip}
    /\ event' = Event("step", 0)
    /\ UNCHANGED << queue, isProcessing, checkInterval, sweep, authToken,
                    printers, initPc, req, progressCounters, console,
                    nextRef, delivered, probe >>

NoProbe == [op |-> "none"]

\* the state after the modules are loaded: the queue manager is
\* constructed and its timer armed, initialize() is at its login request
SystemIdle ==
    /\ queue = << >>
    /\ isProcessing = FALSE
    /\ checkInterval = TRUE
    /\ sweep = [s \in SweepIds |-> IdleSweep]
    /\ authToken = FALSE
    /\ printers = << >>
    /\ initPc = "login"
    /\ req = [r \in Requests |-> NewRequest]
    /\ progressCounters = << >>
    /\ console = {}
    /\ nextRef = 1
    /\ stable = {}
    /\ delivered = {}
    /\ event = Event("init", 0)

Init == SystemIdle /\ probe = NoProbe

Next ==
    \/ InitLogin
    \/ InitFetchPrinters
    \/ \E r \in Requests : Receive(r)
    \/ \E r \in Requests : Fetched(r)
    \/ \E r \in Requests : SafePrintStatus(r)
    \/ \E r \in Requests : SafePrintSend(r)
    \/ Tick
    \/ \E s \in SweepIds : SweepStatus(s)
    \/ \E s \in SweepIds : SweepSend(s)
    \/ Stabilize

Spec == Init /\ [][Next]_vars

(***************************************************************************)
(* The /print route on its own: requests are handled concurrently, the     *)
(* timer of the queue manager has not fired yet.                           *)
(***************************************************************************)
MaxConcurrent == 2   \* /print requests in flight at once

Concurrent == 1..MaxConcurrent

PrintInit ==
    /\ queue = << >>
    /\ isProcessing = FALSE
    /\ checkInterval = TRUE
    /\ sweep = [s \in SweepIds |-> IdleSweep]
    /\ authToken = FALSE
    /\ printers = << >>
    /\ initPc = "login"
    /\ req = [r \in Concurrent |-> NewRequest]
    /\ progressCounters = << >>
    /\ console = {}
    /\ nextRef = 1
    /\ stable = {}
    /\ delivered = {}
    /\ event = Event("init", 0)
    /\ probe = NoProbe

PrintNext ==
    \/ InitLogin
    \/ InitFetchPrinters
    \/ \E r \in Concurrent : Receive(r)
    \/ \E r \in Concurrent : Fetched(r)
    \/ \E r \in Concurrent : SafePrintStatus(r)
    \/ \E r \in Concurrent : SafePrintSend(r)

PrintSpec == PrintInit /\ [][PrintNext]_vars

(***************************************************************************)
(* The queue manager on its own: add() is called at any time, as safePrint *)
(* calls it, for the printers of the cached list.                          *)
(***************************************************************************)
Add ==
    /\ nextRef <= MaxAdds
    /\ \E i \in 1..Len(Directory) : \E id \in JobIds :
          LET p == Directory[i]
              data == KitchenReceipt(0, p.id, nextRef)
          IN  queue' = add(queue, NewJob(nextRef, id, p.id, trimStr(p.ip),
                                         parsePort(p.port), data))
    /\ nextRef' = nextRef + 1
    /\ event' = Event("step", 0)
    /\ UNCHANGED << isProcessing, checkInterval, sweep, authToken, printers,
                    initPc, req, progressCounters, console, stable,
                    delivered, probe >>

QueueNext ==
    \/ Add
    \/ Tick
    \/ \E s \in SweepIds : SweepStatus(s)
    \/ \E s \in SweepIds : SweepSend(s)
    \/ Stabilize

QueueSpec == Init /\ [][QueueNext]_vars

\* setInterval keeps firing, and every pending status query and send settles
QueueFairness ==
    /\ WF_vars(Tick)
    /\ \A s \in SweepIds : WF_vars(SweepStatus(s)) /\ WF_vars(SweepSend(s))

FairQueueSpec == QueueSpec /\ QueueFairness

(***************************************************************************)
(* The sweeps of the queue manager over a given queue: the queue holds the *)
(* jobs add() has put there, no job is added while the sweeps run.         *)
(***************************************************************************)
MaxQueued == 3       \* jobs in the queue when the first tick comes

\* the queues add() can have built from the printers of the cached list;
\* processQueue only logs job.id, so every job carries the same token
QueueChoices ==
    UNION { { [i \in 1..n |->
                 LET p == Directory[c[i]]
                 IN  NewJob(i, 1, p.id, trimStr(p.ip),
                            parsePort(p.port), KitchenReceipt(0, p.id, i))] :
              c \in [1..n -> 1..Len(Directory)] } :
            n \in 0..MaxQueued }

SweepInit ==
    /\ queue \in QueueChoices
    /\ nextRef = Len(queue) + 1
    /\ isProcessing = FALSE
    /\ checkInterval = TRUE
    /\ sweep = [s \in SweepIds |-> IdleSweep]
    /\ authToken = FALSE
    /\ printers = << >>
    /\ initPc = "login"
    /\ req = [r \in Requests |-> NewRequest]
    /\ progressCounters = << >>
    /\ console = {}
    /\ stable = {}
    /\ delivered = {}
    /\ event = Event("init", 0)
    /\ probe = Observing([op |-> "sweeps"], << >>)

SweepNext ==
    \/ Tick
    \/ \E s \in SweepIds : SweepStatus(s)
    \/ \E s \in SweepIds : SweepSend(s)

SweepSpec == SweepInit /\ [][SweepNext]_vars

(***************************************************************************)
(* The transport functions called on their own: getPrinterStatus on every  *)
(* first response byte, sendToPrinter on a range of addresses.             *)
(***************************************************************************)
SystemUnchanged ==
    UNCHANGED << queue, isProcessing, checkInterval, sweep, authToken,
                 printers, initPc, req, progressCounters, console, nextRef,
                 stable, delivered, event >>

StatusInit ==
    /\ SystemIdle
    /\ probe \in {[op |-> "status", byte |-> b, result |-> "none"] :
                     b \in 0..255}

\* getPrinterStatus: the "data" event delivers the response
StatusData ==
    /\ probe.op = "status"
    /\ probe.result = "none"
    /\ probe' = [probe EXCEPT !.result = ClassifyStatusByte(probe.byte)]
    /\ SystemUnchanged

StatusSpec == StatusInit /\ [][StatusData]_vars

ProbeIps ==
    { << >>, << " " >>, << " ", "\t" >>, << "1" >>, << " ", "1", " " >>,
      << "1", " ", "2" >> }

ProbePorts ==
    { NaN, PosInfinity, NegInfinity, Null, Num(-1), Num(0), Num(1),
      Num(9100), Num(65535) }

SendInit ==
    /\ SystemIdle
    /\ probe \in {[op |-> "send", ip |-> ip, port |-> port, pc |-> "called",
                   sockets |-> 0, error |-> "none"] :
                     ip \in ProbeIps, port \in ProbePorts}

\* sendToPrinter from its head to "client.connect(...)"
SendCall ==
    /\ probe.op = "send"
    /\ probe.pc = "called"
    /\ probe' = IF InvalidPrinterAddress(probe.ip, probe.port)
                THEN [probe EXCEPT !.pc = "rejected",
                                   !.error = "InvalidAddress"]
                ELSE [probe EXCEPT !.pc = "connecting", !.sockets = 1]
    /\ SystemUnchanged

\* sendToPrinter: the write callback or the "error" event
SendSettle ==
    /\ probe.op = "send"
    /\ probe.pc = "connecting"
    /\ \E outcome \in {"ok", "TransportError"} :
          probe' = IF outcome = "ok"
                   THEN [probe EXCEPT !.pc = "resolved"]
                   ELSE [probe EXCEPT !.pc = "rejected", !.error = outcome]
    /\ SystemUnchanged

SendNext == SendCall \/ SendSettle

SendSpec == SendInit /\ [][SendNext]_vars

(***************************************************************************)
(* utils/printer.ts: sendToPrinter, the bytes of the payload. A Buffer is  *)
(* its sequence of bytes, a string its sequence of code points.            *)
(***************************************************************************)
MaxSegments == 3     \* segments in the list handed to sendToPrinter

Buf(bytes) == [kind |-> "buffer", content |-> bytes]
Str(chars) == [kind |-> "string", content |-> chars]
Segments(items) == [kind |-> "array", content |-> items]

\* Buffer.from(ESC + "t" + "\x13", "ascii")
SELECT_CP858 == << 27, 116, 19 >>

\* Buffer.from(ESC + "d" + "\x06" + ESC + "i", "ascii")
FEED_AND_CUT == << 27, 100, 6, 27, 105 >>

\* iconv.encode(item, "cp858") on one character: ASCII is kept, the euro
\* sign (U+20AC) is 0xD5, e acute (U+00E9) is 0x82, and a character the
\* code page lacks becomes "?"
Cp858(c) ==
    IF c < 128 THEN c
    ELSE IF c = 8364 THEN 213
    ELSE IF c = 233 THEN 130
    ELSE 63

\* variant: every segment goes through the encoder, as when the payload is
\* assembled as one string
EncodeItemAsText(item) ==
    [i \in 1..Len(item.content) |-> Cp858(item.content[i])]

\* sendToPrinter: Buffer.isBuffer(item) ? item : iconv.encode(item, "cp858")
EncodeItem(item) ==
    IF item.kind = "buffer" THEN item.content
    ELSE [i \in 1..Len(item.content) |-> Cp858(item.content[i])]

\* sendToPrinter: Array.isArray(data) ? data : [data]
Normalize(data) ==
    IF data.kind = "array" THEN data.content ELSE << data >>

\* Buffer.concat(buffers)
RECURSIVE ConcatBuffers(_)
ConcatBuffers(buffers) ==
    IF buffers = << >> THEN << >>
    ELSE Head(buffers) \o ConcatBuffers(Tail(buffers))

\* sendToPrinter from "const normalized" to "const payload"
BuildPayload(data) ==
    LET normalized == Normalize(data)
        buffers == << SELECT_CP858 >>
                   \o [i \in 1..Len(normalized) |-> EncodeItem(normalized[i])]
                   \o << FEED_AND_CUT >>
    IN  ConcatBuffers(buffers)

\* the segments a receipt is made of: raster image bytes and text
SegmentChoices ==
    { Buf(<< 29, 118 >>), Buf(<< 213, 255 >>),
      Str(<< 65, 8364 >>), Str(<< 233, 10003, 10 >>) }

RECURSIVE SeqsUpTo(_, _)
SeqsUpTo(S, n) ==
    IF n = 0 THEN {<< >>}
    ELSE LET shorter == SeqsUpTo(S, n - 1)
         IN  shorter \cup {Append(q, x) : q \in shorter, x \in S}

PayloadInputs ==
    SegmentChoices \cup {Segments(q) : q \in SeqsUpTo(SegmentChoices, MaxSegments)}

PayloadInit ==
    /\ SystemIdle
    /\ probe \in {[op |-> "payload", data |-> d, pc |-> "called",
                   payload |-> << >>, written |-> << >>] :
                     d \in PayloadInputs}

\* sendToPrinter, called with a valid address, up to "client.connect(...)"
PayloadCall ==
    /\ probe.op = "payload"
    /\ probe.pc = "called"
    /\ probe' = [probe EXCEPT !.pc = "connecting",
                              !.payload = BuildPayload(probe.data)]
    /\ SystemUnchanged

\* the connect callback writes the payload and resolves, or the socket
\* reports an error first and the promise is rejected
PayloadWrite ==
    /\ probe.op = "payload"
    /\ probe.pc = "connecting"
    /\ \E outcome \in {"ok", "TransportError"} :
          probe' = IF outcome = "ok"
                   THEN [probe EXCEPT !.pc = "resolved",
                                      !.written = probe.payload]
                   ELSE [probe EXCEPT !.pc = "rejected"]
    /\ SystemUnchanged

PayloadNext == PayloadCall \/ PayloadWrite

PayloadSpec == PayloadInit /\ [][PayloadNext]_vars

(***************************************************************************)
(* utils/printer.ts: buildCashReceipt, the totals. Amounts are exact       *)
(* numbers of cents; a missing field is null.                              *)
(***************************************************************************)
MaxLines == 2        \* priced lines on a cash receipt

\* toNumber on a number, null or undefined
toNumber(v) == IF v.kind = "null" THEN Num(0) ELSE v

\* variant: the total is not floored
MathSecond(a, b) == b

\* Math.max(a, b)
MathMax(a, b) == IF a >= b THEN a ELSE b

\* buildCashReceipt, the loop over lines: subtotalCalc and surchargeSum
RECURSIVE CashSums(_)
CashSums(lines) ==
    IF lines = << >> THEN [subtotalCalc |-> 0, surchargeSum |-> 0]
    ELSE LET l == Head(lines)
             qty == IF l.quantity.kind = "null" THEN 1 ELSE l.quantity.val
             unitBase == toNumber(l.unitPrice).val
             unitExtra == toNumber(l.surcharge).val
             rowBase == unitBase * qty
             rowExtra == unitExtra * qty
             rest == CashSums(Tail(lines))
         IN  [subtotalCalc |-> rowBase + rest.subtotalCalc,
              surchargeSum |-> rowExtra + rest.surchargeSum]

\* buildCashReceipt, the section TOTALI: totalAfterDiscount
CashTotal(lines, orderDiscount) ==
    LET sums == CashSums(lines)
        discount == toNumber(orderDiscount).val
        totalBase == sums.subtotalCalc + sums.surchargeSum
    IN  MathMax(0, totalBase - discount)

CashLineChoices ==
    [unitPrice : {Null, Num(0), Num(250)},
     surcharge : {Null, Num(0), Num(50)},
     quantity : {Null, Num(0), Num(1), Num(3)}]

Discounts == {Null, Num(-100), Num(0), Num(100), Num(250), Num(100000)}

CashInit ==
    /\ SystemIdle
    /\ probe \in {[op |-> "cash", lines |-> ls, discount |-> d,
                   pc |-> "called", total |-> 0] :
                     ls \in SeqsUpTo(CashLineChoices, MaxLines),
                     d \in Discounts}

\* buildCashReceipt up to the TOTALE line
CashBuild ==
    /\ probe.op = "cash"
    /\ probe.pc = "called"
    /\ probe' = [probe EXCEPT !.pc = "built",
                              !.total = CashTotal(probe.lines, probe.discount)]
    /\ SystemUnchanged

CashSpec == CashInit /\ [][CashBuild]_vars

(***************************************************************************)
(* utils/printer.ts: wrapText.                                             *)
(***************************************************************************)
MaxTextLen == 4      \* characters of the text handed to wrapText
MaxWidth == 3        \* largest maxWidth
MaxIndent == 2       \* longest indent

\* text.split(' '): two adjacent spaces enclose an empty word
RECURSIVE SplitOnSpace(_)
SplitOnSpace(text) ==
    IF text = << >> THEN << << >> >>
    ELSE LET before == SplitOnSpace(SubSeq(text, 1, Len(text) - 1))
             c == text[Len(text)]
             n == Len(before)
         IN  IF c = " " THEN Append(before, << >>)
             ELSE [before EXCEPT ![n] = Append(before[n], c)]

\* wrapText, the loop "while ((currentLine + tempWord).length > maxWidth)".
\* With nothing left of the word and a line that is still too long the
\* loop pushes the indent for ever: diverges tells so.
RECURSIVE HardSplit(_, _, _, _, _)
HardSplit(lines, currentLine, tempWord, maxWidth, indent) ==
    IF Len(currentLine) + Len(tempWord) > maxWidth
    THEN IF tempWord = << >>
         THEN [lines |-> lines, currentLine |-> currentLine, diverges |-> TRUE]
         ELSE LET cutLen == MathMax(1, maxWidth - Len(currentLine))
                  cut == IF cutLen < Len(tempWord) THEN cutLen ELSE Len(tempWord)
              IN  HardSplit(Append(lines, currentLine \o SubSeq(tempWord, 1, cut)),
                            indent,
                            SubSeq(tempWord, cut + 1, Len(tempWord)),
                            maxWidth, indent)
    ELSE [lines |-> lines, currentLine |-> currentLine \o tempWord \o << " " >>,
          diverges |-> FALSE]

\* wrapText, the body of "for (const word of words)"
WrapWord(st, word, maxWidth, indent) ==
    IF st.diverges THEN st
    ELSE IF Len(st.currentLine) + Len(word) > maxWidth
    THEN LET lines == IF Len(st.currentLine) > 0
                      THEN Append(st.lines, TrimEnd(st.currentLine))
                      ELSE st.lines
             prefix == IF Len(lines) > 0 THEN indent ELSE << >>
         IN  IF Len(prefix) + Len(word) > maxWidth
             THEN HardSplit(lines, prefix, word, maxWidth, indent)
             ELSE [lines |-> lines, currentLine |-> prefix \o word \o << " " >>,
                   diverges |-> FALSE]
    ELSE [st EXCEPT !.currentLine = st.currentLine \o word \o << " " >>]

RECURSIVE WrapWords(_, _, _, _)
WrapWords(st, words, maxWidth, indent) ==
    IF words = << >> THEN st
    ELSE WrapWords(WrapWord(st, Head(words), maxWidth, indent), Tail(words),
                   maxWidth, indent)

\* wrapText: the lines it returns, or diverges when it never returns
wrapText(text, maxWidth, indent) ==
    LET st == WrapWords([lines |-> << >>, currentLine |-> << >>,
                         diverges |-> FALSE],
                        SplitOnSpace(text), maxWidth, indent)
    IN  IF st.diverges THEN [lines |-> st.lines, diverges |-> TRUE]
        ELSE IF Len(trimStr(st.currentLine)) > 0
        THEN [lines |-> Append(st.lines, TrimEnd(st.currentLine)),
              diverges |-> FALSE]
        ELSE [lines |-> st.lines, diverges |-> FALSE]

TextChars == {"a", "b", " ", "\t"}

Indents == {[i \in 1..n |-> " "] : n \in 0..MaxIndent}

WrapInit ==
    /\ SystemIdle
    /\ probe \in {[op |-> "wrap", text |-> t, maxWidth |-> w, indent |-> ind,
                   pc |-> "called", lines |-> << >>] :
                     t \in SeqsUpTo(TextChars, MaxTextLen),
                     w \in 1..MaxWidth, ind \in Indents}

\* a call of wrapText: it returns its lines, or stays in its loop
WrapCall ==
    /\ probe.op = "wrap"
    /\ probe.pc = "called"
    /\ LET result == wrapText(probe.text, probe.maxWidth, probe.indent)
       IN  probe' = [probe EXCEPT
                        !.pc = IF result.diverges THEN "looping" ELSE "returned",
                        !.lines = result.lines]
    /\ SystemUnchanged

WrapSpec == WrapInit /\ [][WrapCall]_vars

(***************************************************************************)
(* utils/printer.ts: getPrinterStatus, its socket and its timer. The       *)
(* socket emits "data" and "error" until it is destroyed; an "error" that  *)
(* finds no listener is thrown by the emitter as an uncaught exception.    *)
(***************************************************************************)
MaxSocketEvents == 4   \* events the socket and the timer deliver to one call

\* resolve(v) or reject(v): a settled promise ignores it
Settle(p, v) == IF p.outcome = "pending" THEN [p EXCEPT !.outcome = v] ELSE p

\* getPrinterStatus up to the return of the promise: the timer is armed,
\* onError is listening, the socket is connecting
SocketInit ==
    /\ SystemIdle
    /\ probe = [op |-> "socket", timer |-> "armed", onError |-> TRUE,
                socket |-> "open", outcome |-> "pending", log |-> << >>,
                unhandled |-> FALSE]

\* client.on("data", ...)
SocketData ==
    /\ probe.op = "socket"
    /\ probe.socket # "destroyed"
    /\ Len(probe.log) < MaxSocketEvents
    /\ \E statusByte \in StatusBytes :
          probe' = Settle([probe EXCEPT !.timer = IF probe.timer = "armed"
                                                   THEN "cleared" ELSE @,
                                        !.socket = "ended",
                                        !.onError = FALSE,
                                        !.log = Append(@, [event |-> "data",
                                                           byte |-> statusByte])],
                          ClassifyStatusByte(statusByte))
    /\ SystemUnchanged

\* the socket emits "error": onError runs if it is still a listener
SocketError ==
    /\ probe.op = "socket"
    /\ probe.socket # "destroyed"
    /\ \A i \in 1..Len(probe.log) : probe.log[i].event # "error"
    /\ Len(probe.log) < MaxSocketEvents
    /\ probe' = IF probe.onError
                THEN Settle([probe EXCEPT !.timer = IF probe.timer = "armed"
                                                    THEN "cleared" ELSE @,
                                          !.socket = "destroyed",
                                          !.log = Append(@, [event |-> "error",
                                                             byte |-> 0])],
                            "ERROR")
                ELSE [probe EXCEPT !.unhandled = TRUE,
                                   !.log = Append(@, [event |-> "error",
                                                             byte |-> 0])]
    /\ SystemUnchanged

\* the 3 s timer fires
SocketTimeout ==
    /\ probe.op = "socket"
    /\ probe.timer = "armed"
    /\ Len(probe.log) < MaxSocketEvents
    /\ probe' = Settle([probe EXCEPT !.timer = "fired",
                                     !.socket = "destroyed",
                                     !.log = Append(@, [event |-> "timeout",
                                                        byte |-> 0])],
                       "TIMEOUT")
    /\ SystemUnchanged

SocketNext == SocketData \/ SocketError \/ SocketTimeout

SocketSpec == SocketInit /\ [][SocketNext]_vars

(***************************************************************************)
(* utils/image.ts: loadImageAsEscPos, the raster block. The bitmap is      *)
(* modelled by its length; canvasHeight is the height of the image after   *)
(* cropping, resizing and the inline text.                                 *)
(***************************************************************************)
\* a number stored in a Buffer keeps its low 8 bits
ByteOf(n) == n % 256

\* Math.ceil(paperWidth / 8)
CeilDiv8(n) == (n + 7) \div 8

\* loadImageAsEscPos from "const paperWidth" to the return: options.paperWidth
\* of 0 stands for an option that is not given
RasterBlock(optPaperWidth, itemHeight) ==
    LET paperWidth == IF optPaperWidth = 0 THEN 384 ELSE optPaperWidth
        widthBytes == CeilDiv8(paperWidth)
        xL == widthBytes % 256
        xH == widthBytes \div 256
        yL == itemHeight % 256
        yH == itemHeight \div 256
    IN  [header |-> << 29, 118, 48, 0,
                       ByteOf(xL), ByteOf(xH), ByteOf(yL), ByteOf(yH) >>,
         dataLength |-> widthBytes * itemHeight]

\* what the catch returns: Buffer.alloc(0)
EmptyBlock == [header |-> << >>, dataLength |-> 0]

PaperWidths == {0, 1, 8, 9, 384, 576, 2040, 2041, 2048, 4096}

CanvasHeights == {1, 24, 255, 256, 257, 65535, 65536, 65537}

ImageInit ==
    /\ SystemIdle
    /\ probe \in {[op |-> "image", paperWidth |-> w, canvasHeight |-> h,
                   pc |-> "called", block |-> EmptyBlock] :
                     w \in PaperWidths, h \in CanvasHeights}

\* loadImageAsEscPos: the image is read and rendered, or Jimp throws
ImageLoad ==
    /\ probe.op = "image"
    /\ probe.pc = "called"
    /\ \E loaded \in BOOLEAN :
          probe' = [probe EXCEPT
                       !.pc = "returned",
                       !.block = IF loaded
                                 THEN RasterBlock(probe.paperWidth,
                                                  probe.canvasHeight)
                                 ELSE EmptyBlock]
    /\ SystemUnchanged

ImageSpec == ImageInit /\ [][ImageLoad]_vars

(***************************************************************************)
(* utils/axiosInstance.ts: the response interceptors. A request is the     *)
(* config it was issued with; _retryCount lives on that config and is      *)
(* carried over when the interceptor issues the request again.             *)
(***************************************************************************)
MaxAttempts == 9     \* times one request can be issued in a run

MAX_RETRIES == 6

HttpResponse(status) == [kind |-> "response", status |-> status]
NoResponse == [kind |-> "noResponse", status |-> 0]
NoConfig == [kind |-> "noConfig", status |-> 0]
NoResult == [kind |-> "none", status |-> 0]

\* the requests the service makes through axiosInstance
AxiosCalls == {"POST /auth/login", "GET /v1/categories", "GET /v1/printers",
               "GET /v1/cash-registers"}

\* ways one attempt settles: a 2xx response, an error response, no response
\* (network error or the 10 s timeout), an error that carries no config
AxiosOutcomes ==
    {HttpResponse(200), HttpResponse(401), HttpResponse(404),
     HttpResponse(500), NoResponse, NoConfig}

\* variant: the retries end one failure later
RetriesExhaustedLate(retryCount) ==
    /\ retryCount.kind = "num"
    /\ retryCount.val # 0
    /\ retryCount.val > MAX_RETRIES

\* config._retryCount && config._retryCount >= MAX_RETRIES
RetriesExhausted(retryCount) ==
    /\ retryCount.kind = "num"
    /\ retryCount.val # 0
    /\ retryCount.val >= MAX_RETRIES

\* variant: a 401 is treated as any other error
CredentialsNeverRejected(error) == FALSE

\* error.response && error.response.status === 401
CredentialsRejected(error) ==
    error.kind = "response" /\ error.status = 401

\* the rejection handler up to its return or its "await sleep(30000)"
OnRejected(p, error) ==
    IF error.kind = "noConfig" \/ RetriesExhausted(p.retryCount)
    THEN [p EXCEPT !.pc = "rejected", !.result = error]
    ELSE LET counted == [p EXCEPT !.result = error,
                 !.retryCount = Num(ToNumber(p.retryCount).val + 1)]
         IN  IF CredentialsRejected(error)
             THEN [counted EXCEPT !.pc = "rejected"]
             ELSE [counted EXCEPT !.pc = "sleep"]

AxiosInit ==
    /\ SystemIdle
    /\ probe \in {[op |-> "axios", call |-> c, retryCount |-> Null,
                   pc |-> "request", attempts |-> 1, sleeps |-> 0,
                   result |-> NoResult] : c \in AxiosCalls}

\* an attempt settles and the response interceptors run
AxiosSettle ==
    /\ probe.op = "axios"
    /\ probe.pc = "request"
    /\ \E outcome \in AxiosOutcomes :
          probe' = IF outcome.kind = "response" /\ outcome.status = 200
                   THEN [probe EXCEPT !.pc = "returned", !.result = outcome]
                   ELSE OnRejected(probe, outcome)
    /\ SystemUnchanged

\* the 30 s sleep is over: return axiosInstance(config)
AxiosRetry ==
    /\ probe.op = "axios"
    /\ probe.pc = "sleep"
    /\ probe.attempts < MaxAttempts
    /\ probe' = [probe EXCEPT !.pc = "request",
                              !.attempts = probe.attempts + 1,
                              !.sleeps = probe.sleeps + 1]
    /\ SystemUnchanged

AxiosNext == AxiosSettle \/ AxiosRetry

AxiosSpec == AxiosInit /\ [][AxiosNext]_vars

\* every attempt settles (a response, an error or the 10 s timeout) and the
\* timer of sleep() fires
FairAxiosSpec == AxiosSpec /\ WF_vars(AxiosSettle) /\ WF_vars(AxiosRetry)

(***************************************************************************)
(* Claims.                                                                 *)
(***************************************************************************)
ActiveSweeps == {s \in SweepIds : sweep[s].pc # "idle"}

QueuedJobs == {queue[i] : i \in 1..Len(queue)}

\* C1: a job appended by add() while a sweep is in flight is still in the
\* queue when that sweep finishes (no queued job is lost to the race between
\* enqueue and sweep).
C1_JobAddedDuringSweepKept ==
    event.type = "sweepEnd" =>
        (event.ended.before \ event.ended.snapshot) \subseteq Refs(queue)

\* C2: at most one execution of processQueue is active at any time, the
\* guard is set exactly while one is, and a tick that arrives while a sweep
\* is running returns at the guard: it starts nothing and changes neither
\* the queue nor the sweep in progress.
C2_SingleSweep ==
    /\ [](Cardinality(ActiveSweeps) <= 1)
    /\ [][ ( /\ event'.type \in {"tickBusy", "tickEmpty", "tickStart"}
             /\ ActiveSweeps # {} )
           => ( /\ event'.type = "tickBusy"
                /\ UNCHANGED << queue, sweep, isProcessing, delivered,
                                req, nextRef >> ) ]_vars

C2_TickDuringSweep ==
    /\ event.type = "tickBusy"
    /\ ActiveSweeps # {}
    /\ \E s \in SweepIds : sweep[s].pc = "send"

\* C3: a job that is in the queue when a sweep starts is absent after the
\* sweep iff its send resolved during that sweep, and a job leaves the queue
\* in no other way.
C3_LeavesOnlyWhenSent ==
    [][ /\ event'.type = "sweepEnd" =>
              \A ref \in event'.ended.snapshot :
                  ref \notin Refs(queue') <=> ref \in event'.ended.sent
        /\ (Refs(queue) \ Refs(queue')) \subseteq event'.ended.sent ]_vars

\* C4: safePrint never throws, and when it returns either the payload was
\* sent (and nothing enqueued) or exactly one job with the call's printerId,
\* ip, port and payload was added to the queue.
C4_SentOrEnqueuedOnce ==
    event.type = "safePrint" =>
        LET c == event.call
        IN  /\ ~c.threw
            /\ \/ c.sent /\ c.added = << >>
               \/ /\ ~c.sent
                  /\ Len(c.added) = 1
                  /\ c.added[1] \in QueuedJobs
                  /\ c.added[1].printerId = c.printerId
                  /\ c.added[1].ip = c.ip
                  /\ c.added[1].port = c.port
                  /\ c.added[1].data = c.data

C4_EnqueuedAfterFailedSend ==
    /\ event.type = "safePrint"
    /\ event.call.sends = 1
    /\ ~event.call.sent
    /\ Len(event.call.added) = 1

\* C5: a print whose target address is malformed (blank ip, or a port that
\* is not a finite number greater than 0) is never added to the delivery
\* queue.
C5_MalformedNeverQueued ==
    \A job \in QueuedJobs :
        /\ trimStr(job.ip) # << >>
        /\ job.port.kind = "num"
        /\ job.port.val > 0

\* C6: a send is attempted only after the status query of the same
\* safePrint call, or of the same printer group in the same sweep, returned
\* OK or CARTA_QUASI_FINITA; after any other outcome nothing is sent for the
\* call or the group and its jobs are queued.
C6_SendOnlyWhenReady ==
    /\ \A r \in Requests :
          req[r].pc = "send" =>
              req[r].call.status \in {"OK", "CARTA_QUASI_FINITA"}
    /\ \A s \in SweepIds :
          sweep[s].pc = "send" =>
              sweep[s].status \in {"OK", "CARTA_QUASI_FINITA"}
    /\ ( /\ event.type = "safePrint"
         /\ event.call.status \notin {"OK", "CARTA_QUASI_FINITA"} )
       => ( /\ event.call.sends = 0
            /\ ~event.call.sent
            /\ Len(event.call.added) = 1 )
    /\ event.type = "sweepEnd" =>
          /\ event.ended.refused \cap event.ended.sent = {}
          /\ event.ended.refused \subseteq Refs(queue)

C6_GroupRefused ==
    /\ event.type = "sweepEnd"
    /\ event.ended.refused # {}
    /\ event.ended.sent # {}

Bit(b, k) == (b \div (2 ^ k)) % 2

C9_StatusByteClassified ==
    (probe.op = "status" /\ probe.result # "none") =>
        LET out == Bit(probe.byte, 5) = 1 /\ Bit(probe.byte, 6) = 1
            low == Bit(probe.byte, 2) = 1 /\ Bit(probe.byte, 3) = 1
        IN  /\ probe.result = "CARTA_FINITA" <=> out
            /\ probe.result = "CARTA_QUASI_FINITA" <=> (~out /\ low)
            /\ probe.result = "OK" <=> (~out /\ ~low)

C9_BothPairsSet ==
    /\ probe.op = "status"
    /\ Bit(probe.byte, 5) = 1 /\ Bit(probe.byte, 6) = 1
    /\ Bit(probe.byte, 2) = 1 /\ Bit(probe.byte, 3) = 1
    /\ probe.result = "CARTA_FINITA"

\* C10: sendToPrinter called with an ip that is blank after trimming, or a
\* port that is not a finite number greater than 0, fails with the invalid
\* address error before any socket is created; with a valid address that
\* error is not raised.
C10_InvalidAddressRejectedFirst ==
    probe.op = "send" =>
        LET blank == \A i \in 1..Len(probe.ip) : IsSpace(probe.ip[i])
            badPort == ~(probe.port.kind = "num" /\ probe.port.val > 0)
        IN  /\ ((blank \/ badPort) /\ probe.pc # "called") =>
                  /\ probe.pc = "rejected"
                  /\ probe.error = "InvalidAddress"
                  /\ probe.sockets = 0
            /\ ~(blank \/ badPort) => probe.error # "InvalidAddress"

C10_PortZeroRejected ==
    /\ probe.op = "send"
    /\ probe.port = Num(0)
    /\ trimStr(probe.ip) # << >>
    /\ probe.pc = "rejected"
    /\ probe.error = "InvalidAddress"
    /\ probe.sockets = 0

\* C7: with the timer ticking and every status query and send settling,
\* once a printer answers OK or CARTA_QUASI_FINITA and accepts sends for
\* good, every job enqueued for it is eventually delivered and removed from
\* the queue.
JobRefs == 1..MaxAdds

QueuedAt(ref, ip) ==
    \E i \in 1..Len(queue) : queue[i].ref = ref /\ queue[i].ip = ip

C7_EventuallyDelivered ==
    \A ref \in JobRefs : \A ip \in StableIps :
        (QueuedAt(ref, ip) /\ ip \in stable)
            ~> (ref \in delivered /\ ref \notin Refs(queue))

\* C11: the bytes sendToPrinter writes are the CP858 preamble, then every
\* segment of the input at its place and in the input's order (a binary
\* segment byte for byte, a text segment transcoded), then the feed-and-cut
\* trailer, and nothing else; a lone string or buffer counts as a list of one.
RECURSIVE SegmentOffset(_, _)
SegmentOffset(items, i) ==
    IF i = 1 THEN 3
    ELSE SegmentOffset(items, i - 1) + Len(items[i - 1].content)

C11_PayloadFramesSegments ==
    (probe.op = "payload" /\ probe.pc = "resolved") =>
        LET items == IF probe.data.kind = "array"
                     THEN probe.data.content ELSE << probe.data >>
            w == probe.written
            n == Len(items)
            end == SegmentOffset(items, n + 1)
        IN  /\ Len(w) = end + 5
            /\ SubSeq(w, 1, 3) = << 27, 116, 19 >>
            /\ SubSeq(w, end + 1, end + 5) = << 27, 100, 6, 27, 105 >>
            /\ \A i \in 1..n :
                  LET from == SegmentOffset(items, i)
                      part == SubSeq(w, from + 1, from + Len(items[i].content))
                  IN  IF items[i].kind = "buffer"
                      THEN part = items[i].content
                      ELSE /\ Len(part) = Len(items[i].content)
                           /\ \A k \in 1..Len(part) :
                                 part[k] = Cp858(items[i].content[k])

C11_MixedSegmentsWritten ==
    /\ probe.op = "payload"
    /\ probe.pc = "resolved"
    /\ probe.data.kind = "array"
    /\ Len(probe.data.content) = 3
    /\ probe.data.content[1].kind = "string"
    /\ probe.data.content[2] = Buf(<< 213, 255 >>)
    /\ probe.data.content[3].kind = "string"
    /\ probe.written # << >>

\* C12: for priced lines whose unit price and quantity are given and not
\* negative (a missing surcharge or discount counts as 0), the TOTALE of
\* buildCashReceipt is the sum over the lines of (unit price + surcharge)
\* times quantity, less the discount, and is 0, never negative, when the
\* discount exceeds that sum.
RECURSIVE LinesWorth(_)
LinesWorth(lines) ==
    IF lines = << >> THEN 0
    ELSE LET l == lines[Len(lines)]
             extra == IF l.surcharge.kind = "null" THEN 0 ELSE l.surcharge.val
         IN  LinesWorth(SubSeq(lines, 1, Len(lines) - 1))
             + (l.unitPrice.val + extra) * l.quantity.val

C12_TotalFlooredAtZero ==
    ( /\ probe.op = "cash"
      /\ probe.pc = "built"
      /\ \A i \in 1..Len(probe.lines) :
            /\ probe.lines[i].unitPrice.kind = "num"
            /\ probe.lines[i].quantity.kind = "num" )
    => LET worth == LinesWorth(probe.lines)
           discount == IF probe.discount.kind = "null" THEN 0
                       ELSE probe.discount.val
       IN  /\ probe.total >= 0
           /\ discount > worth => probe.total = 0
           /\ discount <= worth => probe.total = worth - discount

C12_DiscountAboveTotal ==
    /\ probe.op = "cash"
    /\ probe.pc = "built"
    /\ Len(probe.lines) = 2
    /\ \A i \in 1..2 : /\ probe.lines[i].unitPrice = Num(250)
                       /\ probe.lines[i].surcharge = Num(50)
                       /\ probe.lines[i].quantity = Num(3)
    /\ probe.discount = Num(100000)
    /\ probe.total = 0

\* C13: every line wrapText returns is at most maxWidth characters long.
C13_LinesWithinWidth ==
    (probe.op = "wrap" /\ probe.pc = "returned") =>
        \A i \in 1..Len(probe.lines) : Len(probe.lines[i]) <= probe.maxWidth

\* C14: the lines wrapText returns, each continuation line without the
\* indent put in front of it, spell the characters of the words of the text
\* in the order of the text (the spaces that separate words apart).
StripIndent(line, indent) ==
    IF /\ Len(line) >= Len(indent)
       /\ SubSeq(line, 1, Len(indent)) = indent
    THEN SubSeq(line, Len(indent) + 1, Len(line))
    ELSE line

RECURSIVE JoinLines(_, _, _)
JoinLines(lines, indent, i) ==
    IF i > Len(lines) THEN << >>
    ELSE (IF i = 1 THEN lines[i] ELSE StripIndent(lines[i], indent))
         \o JoinLines(lines, indent, i + 1)

WithoutSpaces(s) == SelectSeq(s, LAMBDA c : c # " ")

C14_WordsReproduced ==
    (probe.op = "wrap" /\ probe.pc = "returned") =>
        WithoutSpaces(JoinLines(probe.lines, probe.indent, 1))
            = WithoutSpaces(probe.text)

\* C15: the progress number of every printer starts at 1; a continuation
\* that generates a kitchen receipt for a printer prints the printer's
\* current number on it and advances the number by exactly 1, and no other
\* continuation changes it: over any interleaving of requests the k-th
\* kitchen receipt of a printer shows PROGR: k.
KitchenPrinterIds == {PidA, PidB, PidBad, PidUnknown}

C15_ProgressCountsReceipts ==
    /\ \A P \in KitchenPrinterIds : Progress(progressCounters, P) = 1
    /\ [][ \A P \in KitchenPrinterIds :
             LET started == {req'[r].call.data : r \in
                               {q \in DOMAIN req :
                                   /\ req'[q].call.active
                                   /\ req'[q].call.data # req[q].call.data}}
                 generated == {rc \in (console' \ console) \cup started :
                                  rc.kind = "kitchen" /\ rc.printerId = P}
                 before == Progress(progressCounters, P)
                 after == Progress(progressCounters', P)
             IN  /\ Cardinality(generated) <= 1
                 /\ generated = {} => after = before
                 /\ \A rc \in generated :
                       rc.prog = before /\ after = before + 1 ]_vars

C15_SecondReceiptWhileFirstInFlight ==
    \E r1, r2 \in DOMAIN req :
        /\ r1 # r2
        /\ req[r1].call.active
        /\ req[r1].call.data = KitchenReceipt(r1, PidA, 1)
        /\ req[r2].call.active
        /\ req[r2].call.data = KitchenReceipt(r2, PidA, 2)
        /\ Progress(progressCounters, PidA) = 3

\* C16: once the promise of getPrinterStatus is settled its socket is ended
\* or destroyed, its outcome is the one of the first event whatever arrives
\* later, and no socket error is left without a handler.
C16_SettledOnceSocketClosed ==
    probe.op = "socket" =>
        /\ probe.outcome # "pending" => probe.socket \in {"ended", "destroyed"}
        /\ probe.log # << >> =>
              LET first == probe.log[1]
              IN  probe.outcome =
                     IF first.event = "data" THEN ClassifyStatusByte(first.byte)
                     ELSE IF first.event = "error" THEN "ERROR"
                     ELSE "TIMEOUT"
        /\ ~probe.unhandled

\* C17: a non-empty block of loadImageAsEscPos is the header 1D 76 30 00 xL
\* xH yL yH, each field one byte, with xL + 256*xH = ceil(paperWidth/8) and
\* yL + 256*yH = canvasHeight, followed by ceil(paperWidth/8) * canvasHeight
\* bitmap bytes.
C17_RasterHeaderMatchesBitmap ==
    (probe.op = "image" /\ probe.pc = "returned" /\ probe.block # EmptyBlock) =>
        LET h == probe.block.header
            width == IF probe.paperWidth = 0 THEN 384 ELSE probe.paperWidth
            widthBytes == IF width % 8 = 0 THEN width \div 8
                          ELSE width \div 8 + 1
        IN  /\ Len(h) = 8
            /\ SubSeq(h, 1, 4) = << 29, 118, 48, 0 >>
            /\ \A i \in 5..8 : h[i] \in 0..255
            /\ h[5] + 256 * h[6] = widthBytes
            /\ h[7] + 256 * h[8] = probe.canvasHeight
            /\ probe.block.dataLength = widthBytes * probe.canvasHeight

\* C18: a receipt whose printer cannot be resolved (a kitchen or cash
\* printerId that neither the cached list nor the embedded printer knows,
\* or no cash printerId at all) is written to the console; no status query
\* or send is made for it and no job is enqueued for it, and the progress
\* number of a kitchen printer has advanced past the one on the receipt.
KnownPrinter(r, printerId) ==
    /\ printerId # << >>
    /\ \/ \E i \in 1..Len(req[r].printers) :
             trimStr(req[r].printers[i].id) = printerId
       \/ /\ req[r].embedded.present
          /\ trimStr(req[r].embedded.id) = printerId
          /\ trimStr(req[r].embedded.ip) # << >>
          /\ req[r].embedded.port.kind = "num"
          /\ req[r].embedded.port.val > 0

C18_UnresolvedOnConsoleOnly ==
    /\ \A rc \in console :
          /\ ~KnownPrinter(rc.req, rc.printerId)
          /\ \A r \in DOMAIN req : req[r].call.data # rc
          /\ event.call.data # rc
          /\ \A i \in 1..Len(queue) : queue[i].data # rc
          /\ rc.kind = "kitchen" =>
                Progress(progressCounters, rc.printerId) > rc.prog
    /\ \A r \in DOMAIN req :
          (req[r].pc = "done" /\ req[r].resp = "ok") =>
              /\ \A i \in 1..Len(req[r].kitchen) :
                    ~KnownPrinter(r, req[r].kitchen[i]) =>
                        \E rc \in console : /\ rc.kind = "kitchen"
                                            /\ rc.req = r
                                            /\ rc.printerId = req[r].kitchen[i]
              /\ ~KnownPrinter(r, req[r].cashRegisterPrinterId) =>
                    CashReceipt(r, req[r].cashRegisterPrinterId) \in console

C18_KitchenAndCashOnConsole ==
    \E r \in DOMAIN req :
        /\ req[r].pc = "done"
        /\ req[r].printers # << >>
        /\ \E rc \in console : /\ rc.kind = "kitchen"
                               /\ rc.req = r
                               /\ rc.printerId = PidUnknown
        /\ CashReceipt(r, << >>) \in console
        /\ Progress(progressCounters, PidUnknown) = 2
        /\ queue = << >>

\* C19: a call of add() appends one job with attempts = 0 at the tail of the
\* queue and leaves the jobs already queued, their order, isProcessing, the
\* timer and the sweeps as they are; the queue grows in no other way, and a
\* sweep starts only in a timer tick.
C19_AddOnlyAppends ==
    [][ /\ nextRef' # nextRef =>
              /\ Len(queue') = Len(queue) + 1
              /\ SubSeq(queue', 1, Len(queue)) = queue
              /\ queue'[Len(queue')].ref = nextRef
              /\ queue'[Len(queue')].attempts = 0
              /\ UNCHANGED << isProcessing, checkInterval, sweep >>
        /\ Len(queue') > Len(queue) => nextRef' = nextRef + 1
        /\ \A s \in SweepIds :
              (sweep[s].pc = "idle" /\ sweep'[s].pc # "idle")
                  => event'.type = "tickStart" ]_vars

C19_AddedBehindDuringSweep ==
    /\ event.type = "safePrint"
    /\ Len(event.call.added) = 1
    /\ isProcessing
    /\ Len(queue) >= 2
    /\ queue[Len(queue)] = event.call.added[1]
    /\ queue[Len(queue)].attempts = 0

\* C20: a job of the sweep's snapshot that is in the queue after the sweep
\* is the job as it was before: same id, printerId, ip, port, payload,
\* timestamp and attempts.
C20_KeptJobsUnchanged ==
    [][ event'.type = "sweepEnd" =>
            \A i \in 1..Len(queue') :
                queue'[i].ref \in event'.ended.snapshot =>
                    \E j \in 1..Len(queue) :
                        /\ queue[j].ref = queue'[i].ref
                        /\ queue[j].id = queue'[i].id
                        /\ queue[j].printerId = queue'[i].printerId
                        /\ queue[j].ip = queue'[i].ip
                        /\ queue[j].port = queue'[i].port
                        /\ queue[j].data = queue'[i].data
                        /\ queue[j].timestamp = queue'[i].timestamp
                        /\ queue[j].attempts = queue'[i].attempts ]_vars

C20_KeptAfterFailedSend ==
    /\ event.type = "sweepEnd"
    /\ \E ref \in event.ended.snapshot :
          /\ ref \notin event.ended.sent
          /\ ref \notin event.ended.refused
          /\ ref \in Refs(queue)

\* C21: once initialize() has ended without a printer list (the login or the
\* printers request failed), a valid /print request received from then on is
\* not refused and starts no safePrint call: when it is answered, the answer
\* is ok and every receipt built for it is on the console.
C21_FailedInitPrintsOnConsole ==
    [][ \A r \in DOMAIN req :
          ( /\ initPc = "done"
            /\ printers = << >>
            /\ req[r].pc \in {"new", "fetch"}
            /\ req'[r] # req[r]
            /\ req'[r].valid )
          => /\ req'[r].pc \in {"fetch", "done"}
             /\ ~req'[r].call.active
             /\ req'[r].pc = "done" =>
                   /\ req'[r].resp = "ok"
                   /\ req'[r].built >= 1
                   /\ Cardinality({rc \in console' : rc.req = r})
                          = req'[r].built ]_vars

\* C22: in one sweep the status of every printerId that has a job in the
\* queue the sweep started from is queried exactly once; every job of a
\* printer that answered OK or CARTA_QUASI_FINITA is sent exactly once,
\* whatever became of the jobs before it, no job of a printer that answered
\* otherwise is sent, and every printer is queried whatever the printers
\* before it answered.
Occurrences(seq, x) == Cardinality({i \in 1..Len(seq) : seq[i] = x})

AskedPrinters == [i \in 1..Len(probe.queried) |-> probe.queried[i].printerId]

AttemptedRefs == [i \in 1..Len(probe.attempted) |-> probe.attempted[i].ref]

C22_EachGroupQueriedOnce ==
    /\ \A i \in 1..Len(probe.taken) :
          /\ Occurrences(AskedPrinters, probe.taken[i].printerId) <= 1
          /\ Occurrences(AttemptedRefs, probe.taken[i].ref) <= 1
    /\ \A i \in 1..Len(probe.attempted) :
          \E k \in 1..Len(probe.taken) :
              probe.taken[k].ref = probe.attempted[i].ref
    /\ event.type = "sweepEnd" =>
          /\ Len(probe.queried) =
                Cardinality({probe.taken[i].printerId :
                                i \in 1..Len(probe.taken)})
          /\ \A i \in 1..Len(probe.taken) :
                \E k \in 1..Len(probe.queried) :
                    /\ probe.queried[k].printerId = probe.taken[i].printerId
                    /\ Occurrences(AttemptedRefs, probe.taken[i].ref) =
                          IF probe.queried[k].status
                                 \in {"OK", "CARTA_QUASI_FINITA"}
                          THEN 1 ELSE 0

C22_SentAfterFailureAndRefusal ==
    /\ event.type = "sweepEnd"
    /\ Len(probe.queried) = 2
    /\ probe.queried[1].status \in {"ERROR", "TIMEOUT", "CARTA_FINITA"}
    /\ probe.queried[2].status = "OK"
    /\ Len(probe.attempted) = 2
    /\ probe.attempted[1].outcome = "TransportError"
    /\ probe.attempted[2].outcome = "ok"

\* C23: of any two jobs in the queue, the one allocated later by add() has
\* the greater id (so no two jobs share an id).
C23_IdsIncrease ==
    \A i, j \in 1..Len(queue) :
        queue[i].ref < queue[j].ref => queue[i].id < queue[j].id

\* C24: a request is issued at most MAX_RETRIES + 1 times and the
\* interceptor sleeps at most MAX_RETRIES times; every failure that carries
\* its config adds exactly 1 to the retry counter of the request; a failure
\* of the last retry is rejected to the caller; every request ends up
\* returned or rejected.
AxiosFailure ==
    /\ probe.op = "axios"
    /\ probe.pc = "request"
    /\ probe' # probe
    /\ probe'.pc # "returned"

RetryCount(p) == IF p.retryCount.kind = "num" THEN p.retryCount.val ELSE 0

C24_CounterGrowsOnEveryFailure ==
    /\ [](probe.attempts <= MAX_RETRIES + 1 /\ probe.sleeps <= MAX_RETRIES)
    /\ [][ AxiosFailure =>
             /\ probe'.result.kind # "noConfig" =>
                   RetryCount(probe') = RetryCount(probe) + 1
             /\ probe.attempts = MAX_RETRIES + 1 => probe'.pc = "rejected"
         ]_vars
    /\ <>(probe.pc \in {"returned", "rejected"})

\* C24, amended: as above, but the counter grows by 1 only on the failures
\* met with the retries not yet exhausted; the failure of the last retry
\* leaves it at MAX_RETRIES.
C24_CounterGrowsUntilExhausted ==
    /\ [](probe.attempts <= MAX_RETRIES + 1 /\ probe.sleeps <= MAX_RETRIES)
    /\ [][ AxiosFailure =>
             /\ ( /\ probe'.result.kind # "noConfig"
                  /\ RetryCount(probe) < MAX_RETRIES ) =>
                   RetryCount(probe') = RetryCount(probe) + 1
             /\ ( \/ probe'.result.kind = "noConfig"
                  \/ RetryCount(probe) >= MAX_RETRIES ) =>
                   /\ RetryCount(probe') = RetryCount(probe)
                   /\ probe'.pc = "rejected"
             /\ RetryCount(probe) = probe.sleeps
             /\ probe.attempts = probe.sleeps + 1
             /\ probe.attempts = MAX_RETRIES + 1 => probe'.pc = "rejected"
         ]_vars
    /\ <>(probe.pc \in {"returned", "rejected"})

C24_LastRetryRejected ==
    /\ probe.op = "axios"
    /\ probe.pc = "rejected"
    /\ probe.attempts = MAX_RETRIES + 1
    /\ probe.sleeps = MAX_RETRIES
    /\ probe.retryCount = Num(MAX_RETRIES)
    /\ probe.result = NoResponse

\* C25: an attempt that fails with status 401 is rejected in that same
\* step, whatever the retry count: the interceptor neither sleeps nor issues
\* the request again; a 2xx response is returned as it came, with the retry
\* counter untouched; a request that was returned or rejected is never
\* issued again.
C25_UnauthorizedRejectedAtOnce ==
    [][ /\ ( /\ probe.op = "axios"
             /\ probe.pc = "request"
             /\ probe' # probe ) =>
               /\ probe'.result = HttpResponse(401) =>
                     /\ probe'.pc = "rejected"
                     /\ probe'.attempts = probe.attempts
                     /\ probe'.sleeps = probe.sleeps
               /\ probe'.result = HttpResponse(200) <=> probe'.pc = "returned"
               /\ probe'.pc = "returned" =>
                     /\ probe'.retryCount = probe.retryCount
                     /\ probe'.attempts = probe.attempts
                     /\ probe'.sleeps = probe.sleeps
        /\ ( /\ probe.op = "axios"
             /\ probe.pc \in {"returned", "rejected"} ) => probe' = probe
      ]_vars

C25_UnauthorizedAfterRetries ==
    /\ probe.op = "axios"
    /\ probe.pc = "rejected"
    /\ probe.result = HttpResponse(401)
    /\ probe.sleeps = 2
    /\ probe.attempts = 3
    /\ probe.retryCount = Num(3)

SweepJobs(s) ==
    UNION { {sweep[s].groups[g][k] : k \in 1..Len(sweep[s].groups[g])} :
            g \in 1..Len(sweep[s].groups) }

C27_NeverSentTwice ==
    /\ \A r \in DOMAIN req : \A receipt \in req[r].printed :
          /\ \A job \in QueuedJobs : job.data # receipt
          /\ \A s \in SweepIds : \A job \in SweepJobs(s) : job.data # receipt
          /\ \A q \in DOMAIN req : req[q].call.data # receipt
    /\ \A s \in SweepIds :
          sweep[s].pc = "send" =>
              sweep[s].groups[sweep[s].gi][sweep[s].ji].ref \notin delivered
    /\ \A ref \in delivered \cap Refs(queue) :
          \E s \in ActiveSweeps : ref \in sweep[s].sent
    /\ \A s, t \in ActiveSweeps :
          s # t => {job.ref : job \in SweepJobs(s)}
                       \cap {job.ref : job \in SweepJobs(t)} = {}

C27_PrintedAndDelivered ==
    /\ \E r \in DOMAIN req : req[r].pc = "done" /\ req[r].printed # {}
    /\ delivered # {}
    /\ delivered \cap Refs(queue) = {}
    /\ ActiveSweeps = {}

\* C28: of two jobs of the same printerId that a sweep sends, the one
\* enqueued first is sent first; and of two jobs of the same printerId in
\* the queue, the one enqueued first comes first, in the queue a sweep leaves
\* as in the queue it took.
TakenJob(ref) ==
    probe.taken[CHOOSE k \in 1..Len(probe.taken) : probe.taken[k].ref = ref]

C28_PerPrinterOrderKept ==
    /\ \A i, j \in 1..Len(probe.attempted) :
          ( /\ i < j
            /\ TakenJob(probe.attempted[i].ref).printerId
                  = TakenJob(probe.attempted[j].ref).printerId )
          => TakenJob(probe.attempted[i].ref).timestamp
                < TakenJob(probe.attempted[j].ref).timestamp
    /\ \A i, j \in 1..Len(queue) :
          (i < j /\ queue[i].printerId = queue[j].printerId)
              => queue[i].timestamp < queue[j].timestamp

C28_PrintersReordered ==
    /\ event.type = "sweepEnd"
    /\ AttemptedRefs = << 1, 3, 2 >>
    /\ Len(queue) = 3
    /\ queue[1].ref = 1 /\ queue[2].ref = 3 /\ queue[3].ref = 2
    /\ queue[1].printerId = queue[2].printerId
    /\ queue[3].printerId # queue[1].printerId

\* C29: isProcessing is true exactly while an invocation of processQueue is
\* between its first await and its end, so it is false whenever no sweep is
\* executing, however the last sweep went; a tick on an empty queue returns
\* with the guard clear and no sweep started.
C29_GuardReleased ==
    /\ isProcessing <=> ActiveSweeps # {}
    /\ event.type = "sweepEnd" => ~isProcessing
    /\ event.type = "tickEmpty" =>
          /\ queue = << >>
          /\ ~isProcessing
          /\ ActiveSweeps = {}

C29_ReleasedAfterMixedSweep ==
    /\ event.type = "sweepEnd"
    /\ ~isProcessing
    /\ event.ended.refused # {}
    /\ event.ended.sent # {}
    /\ \E ref \in event.ended.snapshot :
          ref \notin event.ended.sent \cup event.ended.refused

\* C30: every call of wrapText returns: the hard-split loop is never entered
\* without an end, whatever the text, maxWidth and indent.
C30_WrapTextReturns ==
    probe.op = "wrap" => probe.pc # "looping"

====
